---- MODULE Spec2Model ----
(***************************************************************************)
(* Model of tools/check_pnpm_audit_exceptions.py: the exception-list       *)
(* parser, the audit normalizer, key normalization, the policy evaluator   *)
(* and the report builder.                                                 *)
(*                                                                         *)
(* Encoding of Python values.  A str is the sequence of its characters,    *)
(* each a one-character string.  None is the one-element sequence None     *)
(* (its element is not a character, so it equals no str).  A JSON number   *)
(* is the marker "<num>" followed by its decimal digits.  A dict read with *)
(* .get() is a record whose absent keys hold None; the exception records   *)
(* returned by parse_exceptions are functions whose DOMAIN is the set of   *)
(* keys present.                                                           *)
(***************************************************************************)
EXTENDS Integers, Sequences, FiniteSets, TLC

----------------------------------------------------------------------------
(* Python str primitives *)

Whitespace == {" ", "\t", "\n"}

UpperChars == <<"A","B","C","D","E","F","G","H","I","J","K","L","M",
                "N","O","P","Q","R","S","T","U","V","W","X","Y","Z">>

LowerChars == <<"a","b","c","d","e","f","g","h","i","j","k","l","m",
                "n","o","p","q","r","s","t","u","v","w","x","y","z">>

DigitChars == <<"0","1","2","3","4","5","6","7","8","9">>

\* the lowercase letter of each uppercase letter
UpperToLower ==
    [c \in {UpperChars[i] : i \in 1..26} |->
        LowerChars[CHOOSE i \in 1..26 : UpperChars[i] = c]]

LowerChar(c) == IF c \in DOMAIN UpperToLower THEN UpperToLower[c] ELSE c

\* str.lower()
Lower(s) == IF s = <<>> THEN <<>> ELSE [i \in 1..Len(s) |-> LowerChar(s[i])]

RECURSIVE LStrip(_)
LStrip(s) == IF s # <<>> /\ Head(s) \in Whitespace THEN LStrip(Tail(s)) ELSE s

RECURSIVE RStrip(_)
RStrip(s) ==
    IF s # <<>> /\ s[Len(s)] \in Whitespace
    THEN RStrip(SubSeq(s, 1, Len(s) - 1))
    ELSE s

\* str.strip()
Strip(s) == RStrip(LStrip(s))

\* str.startswith(p) / str.endswith(p)
StartsWith(s, p) == Len(s) >= Len(p) /\ SubSeq(s, 1, Len(p)) = p

EndsWith(s, p) == Len(s) >= Len(p) /\ SubSeq(s, Len(s) - Len(p) + 1, Len(s)) = p

\* c in s
Contains(s, c) == \E i \in 1..Len(s) : s[i] = c

\* position of the first c in s (s contains c)
FirstIndex(s, c) == CHOOSE i \in 1..Len(s) : s[i] = c /\ \A j \in 1..(i - 1) : s[j] # c

----------------------------------------------------------------------------
(* Python / JSON values *)

None == <<"<None>">>

Num(digits) == <<"<num>">> \o digits

IsNum(v) == v # <<>> /\ Head(v) = "<num>"

\* bool(v)
Truthy(v) == v # None /\ v # <<>> /\ v # Num(<<"0">>)

\* a or b
Or(a, b) == IF Truthy(a) THEN a ELSE b

\* str(v)
Str(v) ==
    IF v = None THEN <<"N","o","n","e">>
    ELSE IF IsNum(v) THEN Tail(v)
    ELSE v

----------------------------------------------------------------------------
(* Module constants *)

s_high == <<"h","i","g","h">>

s_critical == <<"c","r","i","t","i","c","a","l">>

HIGH_SEVERITIES == {s_high, s_critical}

REQUIRED_FIELDS == {"package", "advisory", "severity", "mitigation", "expires_on"}

----------------------------------------------------------------------------
(* Key normalization *)

normalize_severity(severity) == Lower(Strip(Or(severity, <<>>)))

\* mutant: the package is lowercased as well
normalize_package_lower(name) == IF name = None THEN <<>> ELSE Lower(Strip(Str(name)))

normalize_package(name) == IF name = None THEN <<>> ELSE Strip(Str(name))

normalize_advisory(advisory) ==
    IF advisory = None THEN <<>> ELSE Lower(Strip(Str(advisory)))

----------------------------------------------------------------------------
(* Dates: datetime.date as [y, m, d]; NoDate is parse_date's None *)

NoDate == [y |-> 0, m |-> 0, d |-> 0]

\* the value of each decimal digit
DigitValue ==
    [c \in {DigitChars[i] : i \in 1..10} |-> (CHOOSE i \in 1..10 : DigitChars[i] = c) - 1]

IsDigit(c) == c \in DOMAIN DigitValue

DigitVal(c) == DigitValue[c]

IsLeap(y) == (y % 4 = 0 /\ y % 100 # 0) \/ y % 400 = 0

DaysInMonth(y, m) ==
    IF m = 2 THEN (IF IsLeap(y) THEN 29 ELSE 28)
    ELSE IF m \in {4, 6, 9, 11} THEN 30
    ELSE 31

\* date.fromisoformat(value) in its YYYY-MM-DD form; ValueError -> None
parse_date(value) ==
    IF /\ Len(value) = 10
       /\ value[5] = "-" /\ value[8] = "-"
       /\ \A i \in {1, 2, 3, 4, 6, 7, 9, 10} : IsDigit(value[i])
    THEN LET y == 1000 * DigitVal(value[1]) + 100 * DigitVal(value[2])
                  + 10 * DigitVal(value[3]) + DigitVal(value[4])
             m == 10 * DigitVal(value[6]) + DigitVal(value[7])
             d == 10 * DigitVal(value[9]) + DigitVal(value[10])
         IN  IF y >= 1 /\ m \in 1..12 /\ d >= 1 /\ d <= DaysInMonth(y, m)
             THEN [y |-> y, m |-> m, d |-> d]
             ELSE NoDate
    ELSE NoDate

\* date.__lt__
DateLess(a, b) ==
    \/ a.y < b.y
    \/ a.y = b.y /\ a.m < b.m
    \/ a.y = b.y /\ a.m = b.m /\ a.d < b.d

Digit(n) == DigitChars[(n % 10) + 1]

\* date.isoformat()
isoformat(dt) ==
    << Digit(dt.y \div 1000), Digit(dt.y \div 100), Digit(dt.y \div 10), Digit(dt.y), "-",
       Digit(dt.m \div 10), Digit(dt.m), "-",
       Digit(dt.d \div 10), Digit(dt.d) >>

----------------------------------------------------------------------------
(* Audit-report normalizer *)

\* [f(s[1]), ..., f(s[n])]
Map(f(_), s) == IF s = <<>> THEN <<>> ELSE [i \in 1..Len(s) |-> f(s[i])]

RECURSIVE Flatten(_)
Flatten(ss) == IF ss = <<>> THEN <<>> ELSE Head(ss) \o Flatten(Tail(ss))

\* sep.join(parts)
RECURSIVE Join(_, _)
Join(sep, parts) ==
    IF parts = <<>> THEN <<>>
    ELSE IF Len(parts) = 1 THEN Head(parts)
    ELSE Head(parts) \o sep \o Join(sep, Tail(parts))

\* (advisory.get("cves") or [None])[0]; an absent or empty list is <<>>
FirstCve(cves) == IF cves = <<>> THEN None ELSE cves[1]

pick_advisory_id(advisory) ==
    Or(advisory.github_advisory_id,
    Or(advisory.url,
    Or(FirstCve(advisory.cves),
    Or(IF advisory.id # None THEN Str(advisory.id) ELSE None,
    Or(advisory.title,
    Or(advisory.advisory,
       advisory.overview))))))

\* one tuple of the generator: (name, severity, advisory_id, title)
Finding(name, severity, advisory_id, title) ==
    [name |-> name, severity |-> severity, advisory_id |-> advisory_id, title |-> title]

\* the body of the loop over data["advisories"].values()
LegacyFinding(advisory) ==
    Finding(Or(advisory.module_name, advisory.name),
            advisory.severity,
            pick_advisory_id(advisory),
            Or(advisory.title, Or(advisory.advisory, Or(advisory.overview, advisory.url))))

\* what one entry of a via list appends to advisories
ViaItemAdvisory(item) ==
    IF item.t = "dict"
    THEN << Or(item.github_advisory_id, Or(item.url, Or(item.source,
            Or(item.title, item.name)))) >>
    ELSE IF item.t = "str" THEN << item.s >>
    ELSE <<>>

\* what one entry of a via list appends to titles
ViaItemTitle(item) ==
    IF item.t = "dict"
    THEN << Or(item.title, Or(item.url, Or(item.advisory, item.source))) >>
    ELSE IF item.t = "str" THEN << item.s >>
    ELSE <<>>

ViaAdvisories(via) ==
    IF via.t = "list" THEN Flatten(Map(ViaItemAdvisory, via.items))
    ELSE IF via.t = "str" THEN << via.s >>
    ELSE <<>>

ViaTitles(via) ==
    IF via.t = "list" THEN Flatten(Map(ViaItemTitle, via.items))
    ELSE IF via.t = "str" THEN << via.s >>
    ELSE <<>>

\* the body of the loop over data["vulnerabilities"].items()
ModernFindings(entry) ==
    LET title == Join(<<";", " ">>, SelectSeq(ViaTitles(entry.via), Truthy))
        advisory_ids == SelectSeq(ViaAdvisories(entry.via), Truthy)
        Yield(advisory_id) == Finding(entry.name, entry.severity, advisory_id, title)
    IN  Map(Yield, advisory_ids)

\* the tuples the generator yields, in order.  data.advisories and
\* data.vulnerabilities are the two mappings in insertion order; a key that is
\* absent or holds no mapping is the empty sequence.
iter_vulns(data) ==
    Map(LegacyFinding, data.advisories) \o Flatten(Map(ModernFindings, data.vulnerabilities))

----------------------------------------------------------------------------
(* State *)

VARIABLES
    clock,              \* the calendar date date.today() returns
    audit,              \* main: the parsed audit document
    exceptions,         \* main: the records parse_exceptions returned
    exception_index,    \* main: (package, advisory) -> entry
    errors,             \* main: the diagnostic lines
    today,              \* main: NoDate until line 187 has run
    missing_exceptions, \* main
    expired_exceptions, \* main
    seen,               \* main
    field_order,        \* iteration order of the REQUIRED_FIELDS set in this process
    pc,                 \* main: "index", "eval", "done"
    ei,                 \* main: position of the loop over exceptions
    vi,                 \* main: position of the loop over iter_vulns(audit)
    exit_code,          \* -1 while running, then what main returned
    stderr,             \* lines written to sys.stderr
    stdout,             \* lines printed
    run,                \* which run of the tool this is
    first,              \* what the first run returned and wrote
    lines,              \* parse_exceptions: the lines of the file
    li,                 \* parse_exceptions: position of the loop over the lines
    p_exceptions,       \* parse_exceptions: its local list, exceptions
    current,            \* parse_exceptions: the open record, or None
    p_pc                \* parse_exceptions: "scan", "returned", "raised"

vars == << clock, audit, exceptions, exception_index, errors, today,
           missing_exceptions, expired_exceptions, seen, field_order, pc, ei, vi,
           exit_code, stderr, stdout, run, first,
           lines, li, p_exceptions, current, p_pc >>

main_vars == << clock, audit, exceptions, exception_index, errors, today,
                missing_exceptions, expired_exceptions, seen, field_order, pc, ei, vi,
                exit_code, stderr, stdout, run, first >>

parser_vars == << lines, li, p_exceptions, current, p_pc >>

----------------------------------------------------------------------------
(* Diagnostic lines: an f-string template and the values formatted into it *)

Line(fmt, args) == [fmt |-> fmt, args |-> args]

F_missing_fields == "Exception missing required fields {missing}: {package}"

F_invalid_date == "Exception has invalid expires_on date: {package}"

F_missing_value == "Exception missing package or advisory value"

F_duplicate == "Duplicate exception for {exc_package} advisory {advisory}"

F_no_advisory == "High/Critical vulnerability missing advisory id: {name} ({sev})"

F_mismatch ==
    "Exception severity mismatch: {name} ({advisory_id}) expected {sev}, got {severity}"

F_missing_header == "High/Critical vulnerabilities missing exceptions:"

F_expired_header == "Exceptions expired:"

F_expired_line == "- {name} ({sev}) [{advisory_id}] expired on {expires_on}"

F_validated == "Audit exceptions validated."

s_unknown == <<"<","u","n","k","n","o","w","n",">">>

----------------------------------------------------------------------------
(* main: building the exception index, lines 156-185 *)

\* exc.get(field)
Get(exc, field) == IF field \in DOMAIN exc THEN exc[field] ELSE None

\* exc.get(field, default)
GetDefault(exc, field, default) == IF field \in DOMAIN exc THEN exc[field] ELSE default

\* every order in which iterating a set of five str can yield its elements; the
\* order depends on the process's string-hash seed
FieldOrders ==
    {o \in [1..Cardinality(REQUIRED_FIELDS) -> REQUIRED_FIELDS] :
        \A i, j \in DOMAIN o : i # j => o[i] # o[j]}

\* mutant: mitigation is not among the required fields
ExceptionMissing_no_mitigation(exc, order) ==
    SelectSeq(order, LAMBDA field : field # "mitigation" /\ ~Truthy(Get(exc, field)))

\* [field for field in REQUIRED_FIELDS if not exc.get(field)]
ExceptionMissing(exc, order) == SelectSeq(order, LAMBDA field : ~Truthy(Get(exc, field)))

\* The orders this process may still iterate REQUIRED_FIELDS in.  The order is
\* fixed for the life of the process; it is recorded in field_order the first
\* time the result of an iteration depends on it (two or more missing fields).
\* Until then any one order stands for all of them.
PossibleOrders(exc) ==
    IF field_order # <<>> THEN {field_order}
    ELSE IF Cardinality({f \in REQUIRED_FIELDS : ~Truthy(Get(exc, f))}) >= 2 THEN FieldOrders
    ELSE {<<"package", "advisory", "severity", "mitigation", "expires_on">>}

EmptyIndex == [k \in {} |-> [raw |-> <<>>, severity |-> <<>>, expires_on |-> NoDate]]

\* mutant: a repeated key is not detected, the later record overwrites
IsDuplicate_never(key, index) == FALSE

\* key in exception_index
IsDuplicate(key, index) == key \in DOMAIN index

\* exception_index[key] = {...}
IndexPut(index, key, entry) ==
    [k \in DOMAIN index \cup {key} |-> IF k = key THEN entry ELSE index[k]]

IndexException ==
    /\ pc = "index"
    /\ ei <= Len(exceptions)
    /\ \E order \in PossibleOrders(exceptions[ei]) :
        LET exc == exceptions[ei]
            missing == ExceptionMissing(exc, order)
            exc_severity == normalize_severity(Get(exc, "severity"))
            exc_package == normalize_package(Get(exc, "package"))
            exc_advisory == normalize_advisory(Get(exc, "advisory"))
            exc_date == parse_date(Get(exc, "expires_on"))
            key == <<exc_package, exc_advisory>>
        IN  /\ field_order' = IF Len(missing) >= 2 THEN order ELSE field_order
            /\ IF missing # <<>>
               THEN /\ errors' = Append(errors, Line(F_missing_fields,
                                    <<missing, GetDefault(exc, "package", s_unknown)>>))
                    /\ UNCHANGED exception_index
               ELSE IF exc_date = NoDate
               THEN /\ errors' = Append(errors, Line(F_invalid_date,
                                    <<GetDefault(exc, "package", s_unknown)>>))
                    /\ UNCHANGED exception_index
               ELSE IF exc_package = <<>> \/ exc_advisory = <<>>
               THEN /\ errors' = Append(errors, Line(F_missing_value, <<>>))
                    /\ UNCHANGED exception_index
               ELSE IF IsDuplicate(key, exception_index)
               THEN /\ errors' = Append(errors, Line(F_duplicate,
                                    <<exc_package, Get(exc, "advisory")>>))
                    /\ UNCHANGED exception_index
               ELSE /\ exception_index' = IndexPut(exception_index, key,
                                    [raw |-> exc, severity |-> exc_severity,
                                     expires_on |-> exc_date])
                    /\ UNCHANGED errors
    /\ ei' = ei + 1
    /\ UNCHANGED << clock, audit, exceptions, today, missing_exceptions,
                    expired_exceptions, seen, pc, vi, exit_code, stderr, stdout,
                    run, first, parser_vars >>

\* line 187: today = date.today(), once the loop over exceptions has ended
ReadToday ==
    /\ pc = "index"
    /\ ei > Len(exceptions)
    /\ today' = clock
    /\ pc' = "eval"
    /\ UNCHANGED << clock, audit, exceptions, exception_index, errors,
                    missing_exceptions, expired_exceptions, seen, field_order, ei, vi,
                    exit_code, stderr, stdout, run, first, parser_vars >>

----------------------------------------------------------------------------
(* main: evaluating the findings, lines 192-219 *)

\* mutant: the set of seen keys is not consulted
AlreadySeen_never(key, seen_keys) == FALSE

\* key in seen
AlreadySeen(key, seen_keys) == key \in seen_keys

\* mutant: <= for <
IsExpired_inclusive(exc, tdy) ==
    exc.expires_on # NoDate /\ (DateLess(exc.expires_on, tdy) \/ exc.expires_on = tdy)

\* exc["expires_on"] and exc["expires_on"] < today (a date is always truthy)
IsExpired(exc, tdy) == exc.expires_on # NoDate /\ DateLess(exc.expires_on, tdy)

\* lines 211-215
MatchedErrors(errs, f, sev, exc) ==
    IF exc.severity # <<>> /\ exc.severity # sev
    THEN Append(errs, Line(F_mismatch,
                <<Str(f.name), Str(f.advisory_id), sev, exc.severity>>))
    ELSE errs

\* mutant: elif for the second if
MatchedExpired_elif(expired, f, sev, exc, tdy) ==
    IF ~(exc.severity # <<>> /\ exc.severity # sev) /\ IsExpired(exc, tdy)
    THEN Append(expired, [name |-> f.name, sev |-> sev, advisory_id |-> f.advisory_id,
                          expires_on |-> isoformat(exc.expires_on)])
    ELSE expired

\* lines 216-219
MatchedExpired(expired, f, sev, exc, tdy) ==
    IF IsExpired(exc, tdy)
    THEN Append(expired, [name |-> f.name, sev |-> sev, advisory_id |-> f.advisory_id,
                          expires_on |-> isoformat(exc.expires_on)])
    ELSE expired

EvalFinding ==
    /\ pc = "eval"
    /\ LET vulnerabilities == iter_vulns(audit)
           f == vulnerabilities[vi]
           sev == normalize_severity(f.severity)
           advisory_key == normalize_advisory(f.advisory_id)
           key == <<normalize_package(f.name), advisory_key>>
       IN  /\ vi <= Len(vulnerabilities)
           /\ IF sev \notin HIGH_SEVERITIES \/ ~Truthy(f.name)
              THEN UNCHANGED << errors, seen, missing_exceptions, expired_exceptions >>
              ELSE IF advisory_key = <<>>
              THEN /\ errors' = Append(errors, Line(F_no_advisory, <<Str(f.name), sev>>))
                   /\ UNCHANGED << seen, missing_exceptions, expired_exceptions >>
              ELSE IF AlreadySeen(key, seen)
              THEN UNCHANGED << errors, seen, missing_exceptions, expired_exceptions >>
              ELSE /\ seen' = seen \cup {key}
                   /\ IF key \notin DOMAIN exception_index
                      THEN /\ missing_exceptions' = Append(missing_exceptions,
                                   [name |-> f.name, sev |-> sev,
                                    advisory_id |-> f.advisory_id, title |-> f.title])
                           /\ UNCHANGED << errors, expired_exceptions >>
                      ELSE /\ errors' = MatchedErrors(errors, f, sev, exception_index[key])
                           /\ expired_exceptions' = MatchedExpired(expired_exceptions, f,
                                                        sev, exception_index[key], today)
                           /\ UNCHANGED missing_exceptions
    /\ vi' = vi + 1
    /\ UNCHANGED << clock, audit, exceptions, exception_index, today, field_order, pc,
                    ei, exit_code, stderr, stdout, run, first, parser_vars >>

----------------------------------------------------------------------------
(* main: the report, lines 221-243 *)

\* lines 224-229
MissingLine(m) ==
    Line("- {name} ({sev})"
            \o (IF Truthy(m.advisory_id) THEN " [{advisory_id}]" ELSE "")
            \o (IF Truthy(m.title) THEN ": {title}" ELSE ""),
         <<Str(m.name), m.sev>>
            \o (IF Truthy(m.advisory_id) THEN <<Str(m.advisory_id)>> ELSE <<>>)
            \o (IF Truthy(m.title) THEN <<Str(m.title)>> ELSE <<>>))

\* lines 234-236
ExpiredLine(e) ==
    Line(F_expired_line, <<Str(e.name), e.sev, Str(e.advisory_id), e.expires_on>>)

\* mutant: the expired listing is appended before the missing listing
ReportErrors_expired_first(errs, missing, expired) ==
    errs
    \o (IF expired # <<>> THEN <<Line(F_expired_header, <<>>)>> \o Map(ExpiredLine, expired)
        ELSE <<>>)
    \o (IF missing # <<>> THEN <<Line(F_missing_header, <<>>)>> \o Map(MissingLine, missing)
        ELSE <<>>)

\* lines 221-236: errors after the two listings have been appended
ReportErrors(errs, missing, expired) ==
    errs
    \o (IF missing # <<>> THEN <<Line(F_missing_header, <<>>)>> \o Map(MissingLine, missing)
        ELSE <<>>)
    \o (IF expired # <<>> THEN <<Line(F_expired_header, <<>>)>> \o Map(ExpiredLine, expired)
        ELSE <<>>)

BuildReport ==
    /\ pc = "eval"
    /\ vi > Len(iter_vulns(audit))
    /\ errors' = ReportErrors(errors, missing_exceptions, expired_exceptions)
    /\ IF errors' # <<>>
       THEN /\ stderr' = errors'
            /\ exit_code' = 1
            /\ UNCHANGED stdout
       ELSE /\ stdout' = <<Line(F_validated, <<>>)>>
            /\ exit_code' = 0
            /\ UNCHANGED stderr
    /\ pc' = "done"
    /\ UNCHANGED << clock, audit, exceptions, exception_index, today,
                    missing_exceptions, expired_exceptions, seen, field_order, ei, vi,
                    run, first, parser_vars >>

\* the state of main when the loop over exceptions starts (lines 153-154), with
\* the locals of lines 187-192 at their initial values
Start ==
    /\ exception_index = EmptyIndex
    /\ errors = <<>>
    /\ today = NoDate
    /\ missing_exceptions = <<>>
    /\ expired_exceptions = <<>>
    /\ seen = {}
    /\ field_order = <<>>
    /\ pc = "index"
    /\ ei = 1
    /\ vi = 1
    /\ exit_code = -1
    /\ stderr = <<>>
    /\ stdout = <<>>

\* the tool is run a second time, as a new process, on the same audit and
\* exception files and the same calendar day
Rerun ==
    /\ pc = "done"
    /\ run = 1
    /\ run' = 2
    /\ first' = [exit_code |-> exit_code, stderr |-> stderr, stdout |-> stdout]
    /\ exception_index' = EmptyIndex
    /\ errors' = <<>>
    /\ today' = NoDate
    /\ missing_exceptions' = <<>>
    /\ expired_exceptions' = <<>>
    /\ seen' = {}
    /\ field_order' = <<>>
    /\ pc' = "index"
    /\ ei' = 1
    /\ vi' = 1
    /\ exit_code' = -1
    /\ stderr' = <<>>
    /\ stdout' = <<>>
    /\ UNCHANGED << clock, audit, exceptions, parser_vars >>

----------------------------------------------------------------------------
(* parse_exceptions, lines 23-48, and split_kv, lines 12-20 *)

s_version == <<"v","e","r","s","i","o","n",":">>

s_exceptions == <<"e","x","c","e","p","t","i","o","n","s",":">>

\* a dict of the parser: a function from the keys present to their values
EmptyDict == [k \in {} |-> <<>>]

\* d[key] = value
DictPut(d, key, value) == [k \in DOMAIN d \cup {key} |-> IF k = key THEN value ELSE d[k]]

\* current = None / current = d
NoRecord == [some |-> FALSE, d |-> EmptyDict]

Record(d) == [some |-> TRUE, d |-> d]

\* bool(current): neither None nor an empty dict
IsOpen(cur) == cur.some /\ DOMAIN cur.d # {}

\* line.split(":", 1) has two parts; if it has one, the unpacking in split_kv
\* raises ValueError
CanSplit(line) == Contains(line, ":")

\* value[1:-1] if value is wrapped in a pair of matching quotes
Unquote(value) ==
    IF \/ StartsWith(value, <<"\"">>) /\ EndsWith(value, <<"\"">>)
       \/ StartsWith(value, <<"'">>) /\ EndsWith(value, <<"'">>)
    THEN SubSeq(value, 2, Len(value) - 1)
    ELSE value

\* split_kv(line), for a line that can be split
split_kv(line) ==
    LET i == FirstIndex(line, ":")
    IN  [key |-> Strip(SubSeq(line, 1, i - 1)),
         value |-> Unquote(Strip(SubSeq(line, i + 1, Len(line))))]

\* exceptions after "if current: exceptions.append(current)"
Flush(excs, cur) == IF IsOpen(cur) THEN Append(excs, cur.d) ELSE excs

\* one iteration of the loop over the lines
ParseLine ==
    /\ p_pc = "scan"
    /\ li <= Len(lines)
    /\ LET line == Strip(lines[li])
       IN  IF line = <<>> \/ StartsWith(line, <<"#">>)
           THEN UNCHANGED << p_exceptions, current, p_pc >>
           ELSE IF StartsWith(line, s_version) \/ StartsWith(line, s_exceptions)
           THEN UNCHANGED << p_exceptions, current, p_pc >>
           ELSE IF StartsWith(line, <<"-", " ">>)
           THEN LET rest == Strip(SubSeq(line, 3, Len(line)))
                IN  /\ p_exceptions' = Flush(p_exceptions, current)
                    /\ IF rest = <<>>
                       THEN current' = Record(EmptyDict) /\ UNCHANGED p_pc
                       ELSE IF CanSplit(rest)
                       THEN /\ current' = Record(DictPut(EmptyDict, split_kv(rest).key,
                                                         split_kv(rest).value))
                            /\ UNCHANGED p_pc
                       ELSE /\ current' = Record(EmptyDict)
                            /\ p_pc' = "raised"
           ELSE IF current.some /\ Contains(line, ":")
           THEN /\ current' = Record(DictPut(current.d, split_kv(line).key,
                                             split_kv(line).value))
                /\ UNCHANGED << p_exceptions, p_pc >>
           ELSE UNCHANGED << p_exceptions, current, p_pc >>
    /\ li' = li + 1
    /\ UNCHANGED << lines, main_vars >>

\* lines 46-48, at the end of the file
ParseEnd ==
    /\ p_pc = "scan"
    /\ li > Len(lines)
    /\ p_exceptions' = Flush(p_exceptions, current)
    /\ p_pc' = "returned"
    /\ UNCHANGED << lines, li, current, main_vars >>

----------------------------------------------------------------------------
(* Inputs *)

MaxExceptions == 2

MaxAdvisories == 2

MaxVulnerabilities == 1

MaxLines == 3

SeqsUpTo(S, n) == UNION {[1..k -> S] : k \in 0..n}

\* exception records, as parse_exceptions returns them
ExcHigh ==
    [package |-> <<"p">>, advisory |-> <<"A","b">>, severity |-> <<"h","i","g","h">>,
     mitigation |-> <<"m">>, expires_on |-> <<"2","0","2","4","-","0","3","-","0","1">>]

ExcCriticalOld ==
    [package |-> <<"p">>, advisory |-> <<"a","b">>, severity |-> <<"C","r","i","t","i","c","a","l">>,
     mitigation |-> <<"m">>, expires_on |-> <<"2","0","2","4","-","0","2","-","2","9">>]

ExcBlankSeverity ==
    [package |-> <<" ","p">>, advisory |-> <<"A","B"," ">>, severity |-> <<" ">>,
     mitigation |-> <<"m">>, expires_on |-> <<"2","0","9","9","-","0","1","-","0","1">>]

ExcUpperPackage ==
    [package |-> <<"P">>, advisory |-> <<"A","b">>, severity |-> <<"h","i","g","h">>,
     mitigation |-> <<"m">>, expires_on |-> <<"2","0","9","9","-","0","1","-","0","1">>]

ExcNoMitigation ==
    [package |-> <<"p">>, advisory |-> <<"a","b">>, severity |-> <<"h","i","g","h">>, expires_on |-> <<"2","0","9","9","-","0","1","-","0","1">>]

ExcBadDate ==
    [package |-> <<"p">>, advisory |-> <<"a","b">>, severity |-> <<"h","i","g","h">>,
     mitigation |-> <<"m">>, expires_on |-> <<"2","0","2","4","-","0","2","-","3","0">>]

ExcBlankPackage ==
    [package |-> <<" ">>, advisory |-> <<"a","b">>, severity |-> <<"h","i","g","h">>,
     mitigation |-> <<"m">>, expires_on |-> <<"2","0","9","9","-","0","1","-","0","1">>]

ExcOther ==
    [package |-> <<"q">>, advisory |-> <<"c">>, severity |-> <<"c","r","i","t","i","c","a","l">>,
     mitigation |-> <<"m">>, expires_on |-> <<"2","0","2","4","-","0","3","-","0","2">>]

ExcNoPackage ==
    [advisory |-> <<"a","b">>, severity |-> <<"h","i","g","h">>,
     mitigation |-> <<"m">>, expires_on |-> <<"2","0","9","9","-","0","1","-","0","1">>]

ExcOnlyPackage ==
    [package |-> <<"p">>]

ExcNoMitigationNoDate ==
    [package |-> <<"p">>, advisory |-> <<"a","b">>, severity |-> <<"h","i","g","h">>]

ExceptionMenu ==
    {ExcHigh, ExcCriticalOld, ExcBlankSeverity, ExcUpperPackage, ExcNoMitigation,
     ExcBadDate, ExcBlankPackage, ExcOther, ExcNoPackage}

\* records of the "advisories" mapping of an audit document
NoAdvisory ==
    [module_name |-> None, name |-> None, severity |-> None, github_advisory_id |-> None,
     url |-> None, cves |-> <<>>, id |-> None, title |-> None, advisory |-> None,
     overview |-> None]

AdvHigh ==
    [NoAdvisory EXCEPT !.module_name = <<"p">>, !.severity = s_high,
                       !.github_advisory_id = <<"A","B">>, !.title = <<"t">>]

AdvCriticalSameKey ==
    [NoAdvisory EXCEPT !.name = <<"p"," ">>, !.severity = <<"C","R","I","T","I","C","A","L">>,
                       !.cves = << <<"a","b">> >>]

AdvUpperPackage ==
    [NoAdvisory EXCEPT !.module_name = <<"P">>, !.severity = s_high, !.url = <<"A","b">>]

AdvNoId == [NoAdvisory EXCEPT !.module_name = <<"p">>, !.severity = s_high]

AdvNoName == [NoAdvisory EXCEPT !.severity = s_critical, !.github_advisory_id = <<"a","b">>]

AdvLow ==
    [NoAdvisory EXCEPT !.module_name = <<"p">>, !.severity = <<"l","o","w">>,
                       !.github_advisory_id = <<"a","b">>]

AdvNumericId ==
    [NoAdvisory EXCEPT !.module_name = <<"q">>, !.severity = <<" ","H","i","g","h">>,
                       !.id = Num(<<"7">>), !.overview = <<"o">>]

AdvisoryMenu ==
    {AdvHigh, AdvCriticalSameKey, AdvUpperPackage, AdvNoId, AdvNoName, AdvLow}

\* entries of a via list
NoItem ==
    [t |-> "dict", s |-> None, github_advisory_id |-> None, url |-> None, source |-> None,
     title |-> None, name |-> None, advisory |-> None]

StrItem(s) == [NoItem EXCEPT !.t = "str", !.s = s]

ViaList(items) == [t |-> "list", items |-> items, s |-> None]

ViaStr(s) == [t |-> "str", items |-> <<>>, s |-> s]

\* entries of the "vulnerabilities" mapping: the key and the fields of its value.
\* A title fragment is always a str here: "; ".join raises TypeError on a number.
VulnList ==
    [name |-> <<"p">>, severity |-> s_high,
     via |-> ViaList(<< StrItem(<<"A","B">>),
                        [NoItem EXCEPT !.source = Num(<<"7">>), !.title = <<"t">>] >>)]

VulnStr == [name |-> <<"q">>, severity |-> s_critical, via |-> ViaStr(<<"c">>)]

VulnEmptyName == [name |-> <<>>, severity |-> s_high, via |-> ViaStr(<<"a","b">>)]

VulnerabilityMenu == {VulnList, VulnStr}

\* audit documents: the keys of a JSON mapping are distinct
AuditDocuments ==
    {[advisories |-> a, vulnerabilities |-> v] :
        a \in SeqsUpTo(AdvisoryMenu, MaxAdvisories),
        v \in {w \in SeqsUpTo(VulnerabilityMenu, MaxVulnerabilities) :
                \A i, j \in DOMAIN w : i # j => w[i].name # w[j].name}}

\* audit documents run against every list of exception records
FixedAudits ==
    {[advisories |-> <<AdvHigh, AdvCriticalSameKey>>, vulnerabilities |-> <<VulnStr>>],
     [advisories |-> <<AdvUpperPackage, AdvNoId>>, vulnerabilities |-> <<VulnList>>],
     [advisories |-> <<AdvNumericId, AdvNoName>>, vulnerabilities |-> <<VulnEmptyName>>]}

\* lists of exception records run against every audit document
FixedExceptionLists ==
    {<<>>, <<ExcHigh, ExcOther>>, <<ExcCriticalOld>>, <<ExcBlankSeverity>>,
     <<ExcHigh, ExcUpperPackage>>}

\* the inputs of a run: every list of exception records against a few audit
\* documents, and every audit document against a few lists
Inputs ==
    (SeqsUpTo(ExceptionMenu, MaxExceptions) \X FixedAudits)
    \cup (FixedExceptionLists \X AuditDocuments)

\* the days the tool is run on
Days == {[y |-> 2024, m |-> 3, d |-> 1], [y |-> 2024, m |-> 3, d |-> 2]}

NoResult == [exit_code |-> -1, stderr |-> <<>>, stdout |-> <<>>]

\* lines of an exception file
LineBlank == <<" "," ">>

LineComment == <<"#"," ","c">>

LineVersion == <<"v","e","r","s","i","o","n",":"," ","1">>

LineHeader == <<"e","x","c","e","p","t","i","o","n","s",":">>

LineItem == <<" "," ","-"," ","p","a","c","k","a","g","e",":"," ","\"","p","\"">>

LineItemNoColon == <<"-"," ","f","o","o">>

LineField == <<" "," ","s","e","v","e","r","i","t","y",":"," ","'","h","i","g","h","'">>

LineNoColon == <<"j","u","n","k">>

LineDash == <<"-">>

LineMenu ==
    {LineBlank, LineComment, LineVersion, LineHeader, LineItem, LineItemNoColon,
     LineField, LineNoColon, LineDash}

----------------------------------------------------------------------------
(* Specifications *)

ParserIdle ==
    /\ lines = <<>>
    /\ li = 1
    /\ p_exceptions = <<>>
    /\ current = NoRecord
    /\ p_pc = "idle"

\* main, from the return of parse_exceptions (line 152) on
Init ==
    /\ clock \in Days
    /\ \E input \in Inputs : exceptions = input[1] /\ audit = input[2]
    /\ Start
    /\ run = 1
    /\ first = NoResult
    /\ ParserIdle

Next == IndexException \/ ReadToday \/ EvalFinding \/ BuildReport

Spec == Init /\ [][Next]_vars

\* two runs of the tool on the same inputs
DetInputs ==
    {<<>>, <<ExcHigh>>, <<ExcNoMitigation>>, <<ExcNoMitigationNoDate>>,
     <<ExcHigh, ExcOnlyPackage>>}
    \X {[advisories |-> <<AdvHigh, AdvNoId>>, vulnerabilities |-> <<>>]}

InitDet ==
    /\ clock \in Days
    /\ \E input \in DetInputs : exceptions = input[1] /\ audit = input[2]
    /\ Start
    /\ run = 1
    /\ first = NoResult
    /\ ParserIdle

NextDet == Next \/ Rerun

SpecDet == InitDet /\ [][NextDet]_vars

\* parse_exceptions alone
InitParse ==
    /\ lines \in SeqsUpTo(LineMenu, MaxLines)
    /\ li = 1
    /\ p_exceptions = <<>>
    /\ current = NoRecord
    /\ p_pc = "scan"
    /\ clock \in {[y |-> 2024, m |-> 3, d |-> 1]}
    /\ audit = [advisories |-> <<>>, vulnerabilities |-> <<>>]
    /\ exceptions = <<>>
    /\ exception_index = EmptyIndex
    /\ errors = <<>>
    /\ today = NoDate
    /\ missing_exceptions = <<>>
    /\ expired_exceptions = <<>>
    /\ seen = {}
    /\ field_order = <<>>
    /\ pc = "idle"
    /\ ei = 1
    /\ vi = 1
    /\ exit_code = -1
    /\ stderr = <<>>
    /\ stdout = <<>>
    /\ run = 1
    /\ first = NoResult

NextParse == ParseLine \/ ParseEnd

SpecParse == InitParse /\ [][NextParse]_vars

----------------------------------------------------------------------------
(* Vocabulary of the properties *)

\* the findings of the run, in the order the normalizer yields them
vulns == iter_vulns(audit)

\* the key a finding or an exception record is matched under: the package
\* trimmed, the advisory identifier trimmed and lowercased
TrimmedKey(package, advisory) == <<Strip(Str(package)), Lower(Strip(Str(advisory)))>>

FindingKey(f) == TrimmedKey(f.name, f.advisory_id)

\* a finding the gate has to decide on: high or critical
IsHigh(f) == Lower(Strip(Or(f.severity, <<>>))) \in {s_high, s_critical}

\* a finding that reaches the lookup if no earlier one has its key
IsMatchable(f) ==
    IsHigh(f) /\ Truthy(f.name) /\ f.advisory_id # None /\ FindingKey(f)[2] # <<>>

\* the findings the loop has been through
Evaluated == 1..(vi - 1)

\* finding i of fs is the first matchable one with its key
IsFirstOfKey(fs, i) ==
    /\ IsMatchable(fs[i])
    /\ \A j \in 1..(i - 1) :
        IsMatchable(fs[j]) => FindingKey(fs[j]) # FindingKey(fs[i])

\* the exception records the loop has been through
Indexed == 1..(ei - 1)

\* the claim's malformed record: a required field absent or empty, an
\* expires_on that is no ISO date, or an empty trimmed package or advisory
IsMalformed(exc) ==
    \/ \E field \in {"package", "advisory", "severity", "mitigation", "expires_on"} :
        field \notin DOMAIN exc \/ exc[field] = <<>>
    \/ parse_date(exc.expires_on) = NoDate
    \/ Strip(exc.package) = <<>>
    \/ Strip(exc.advisory) = <<>>

RecordKey(exc) == TrimmedKey(exc.package, exc.advisory)

\* the well-formed records among the first n
WellFormed(n) == {i \in 1..n : ~IsMalformed(exceptions[i])}

\* the well-formed records before record i that have this key
EarlierRecords(i, key) == {j \in WellFormed(i - 1) : RecordKey(exceptions[j]) = key}

DayNumber(dt) == dt.y * 10000 + dt.m * 100 + dt.d

\* an entry of one of the two listings is about the finding with this key
ListedUnder(entries, key) == \E n \in DOMAIN entries : FindingKey(entries[n]) = key

\* the severity-mismatch lines about the finding with this key
MismatchLines(key) ==
    {n \in DOMAIN errors :
        errors[n].fmt = F_mismatch
        /\ TrimmedKey(errors[n].args[1], errors[n].args[2]) = key}

MissingLineFormats ==
    {"- {name} ({sev})", "- {name} ({sev}) [{advisory_id}]", "- {name} ({sev}): {title}",
     "- {name} ({sev}) [{advisory_id}]: {title}"}

\* the partition of the report a line belongs to, as the claim numbers them
Partition(line) ==
    IF line.fmt \in {F_missing_fields, F_invalid_date, F_missing_value, F_duplicate} THEN 1
    ELSE IF line.fmt = F_no_advisory THEN 2
    ELSE IF line.fmt = F_mismatch THEN 3
    ELSE IF line.fmt = F_missing_header \/ line.fmt \in MissingLineFormats THEN 4
    ELSE 5

\* the same with the errors of the loop over the findings in one partition
MergedPartition(line) == IF Partition(line) = 3 THEN 2 ELSE Partition(line)

----------------------------------------------------------------------------
(* Claims *)

\* C1: gate soundness.  When the run exits 0, every finding the normalizer
\* yields with a high or critical severity has an index entry under its key
\* that is not expired on the evaluation date and declares that severity.
C1_GateSound ==
    (pc = "done" /\ exit_code = 0) =>
        LET fs == vulns
        IN  \A i \in DOMAIN fs :
                IsHigh(fs[i]) =>
                    LET key == <<normalize_package(fs[i].name),
                                 normalize_advisory(fs[i].advisory_id)>>
                    IN  /\ key \in DOMAIN exception_index
                        /\ DayNumber(exception_index[key].expires_on) >= DayNumber(today)
                        /\ exception_index[key].severity
                             = Lower(Strip(Or(fs[i].severity, <<>>)))

\* C2 as stated: the lines of the report come in five partitions in a fixed
\* order: malformed exceptions, findings without advisory id, severity
\* mismatches, missing exceptions, expired exceptions.
C2_FivePartitions ==
    \A i, j \in DOMAIN stderr :
        i < j => Partition(stderr[i]) <= Partition(stderr[j])

\* C2 amended: the lines of the report come in four partitions in a fixed
\* order: malformed exceptions; then the errors of the loop over the findings
\* (no advisory id, severity mismatch), together; then the missing-exception
\* header and its lines; then the expired-exception header and its lines.
C2_FourPartitions ==
    /\ \A i, j \in DOMAIN stderr :
        i < j => MergedPartition(stderr[i]) <= MergedPartition(stderr[j])
    /\ \A i \in DOMAIN stderr :
        stderr[i].fmt \in MissingLineFormats =>
            \E h \in 1..(i - 1) : stderr[h].fmt = F_missing_header
    /\ \A i \in DOMAIN stderr :
        stderr[i].fmt = F_expired_line =>
            \E h \in 1..(i - 1) : stderr[h].fmt = F_expired_header

\* C2 witness: a report in which a severity mismatch comes before a finding
\* without advisory id, and which has both listings
C2_Witness ==
    /\ pc = "done"
    /\ \E i, j \in DOMAIN stderr :
        i < j /\ stderr[i].fmt = F_mismatch /\ stderr[j].fmt = F_no_advisory
    /\ \E i, j \in DOMAIN stderr :
        i < j /\ stderr[i].fmt = F_missing_header /\ stderr[j].fmt = F_expired_header

\* C3: expiry boundary.  A finding that matched an index entry is listed as
\* expired exactly when the entry's date is strictly before the evaluation
\* date, the one value of today for every finding of the run.
C3_ExpiryBoundary ==
    \A key \in seen :
        key \in DOMAIN exception_index =>
            (ListedUnder(expired_exceptions, key)
                <=> DayNumber(exception_index[key].expires_on) < DayNumber(today))

\* C3 witness: one matched finding whose exception expires today and is not
\* listed, one whose exception expired the day before and is listed
C3_Witness ==
    /\ pc = "done"
    /\ \E k1, k2 \in seen \cap DOMAIN exception_index :
        /\ exception_index[k1].expires_on = today
        /\ ~ListedUnder(expired_exceptions, k1)
        /\ DayNumber(exception_index[k2].expires_on) = DayNumber(today) - 1
        /\ ListedUnder(expired_exceptions, k2)

\* C4: independence of the checks.  A finding that matched an entry with
\* another, non-empty severity and a date before the evaluation date has both
\* a severity-mismatch line and an expired line; a finding that matched no
\* entry has neither.
C4_Independence ==
    LET fs == vulns
    IN  \A i \in Evaluated :
        IsFirstOfKey(fs, i) =>
            LET key == FindingKey(fs[i])
                sev == Lower(Strip(fs[i].severity))
            IN  IF key \in DOMAIN exception_index
                THEN (/\ exception_index[key].severity # <<>>
                      /\ exception_index[key].severity # sev
                      /\ DayNumber(exception_index[key].expires_on) < DayNumber(today))
                     => (/\ MismatchLines(key) # {}
                         /\ ListedUnder(expired_exceptions, key))
                ELSE /\ MismatchLines(key) = {}
                     /\ ~ListedUnder(expired_exceptions, key)

\* C4 witness: a finding with both lines
C4_Witness ==
    /\ pc = "done"
    /\ LET fs == vulns
       IN  \E i \in Evaluated :
            /\ IsFirstOfKey(fs, i)
            /\ FindingKey(fs[i]) \in DOMAIN exception_index
            /\ exception_index[FindingKey(fs[i])].severity
                 \notin {<<>>, Lower(Strip(fs[i].severity))}
            /\ MismatchLines(FindingKey(fs[i])) # {}
            /\ ListedUnder(expired_exceptions, FindingKey(fs[i]))

\* C5: duplicate suppression.  No key is evaluated twice: no two entries of
\* the missing listing, no two of the expired listing and no two
\* severity-mismatch lines are about the same key.
C5_NoDoubleReport ==
    /\ \A m, n \in DOMAIN missing_exceptions :
        m # n => FindingKey(missing_exceptions[m]) # FindingKey(missing_exceptions[n])
    /\ \A m, n \in DOMAIN expired_exceptions :
        m # n => FindingKey(expired_exceptions[m]) # FindingKey(expired_exceptions[n])
    /\ \A key \in seen : Cardinality(MismatchLines(key)) <= 1

\* C5 witness: two findings with one key have been evaluated, and the key is
\* in a listing
C5_Witness ==
    /\ pc = "done"
    /\ LET fs == vulns
       IN  \E i, j \in Evaluated :
            /\ i < j
            /\ IsMatchable(fs[i]) /\ IsMatchable(fs[j])
            /\ FindingKey(fs[i]) = FindingKey(fs[j])
            /\ \/ ListedUnder(missing_exceptions, FindingKey(fs[i]))
               \/ ListedUnder(expired_exceptions, FindingKey(fs[i]))

\* C6: uniqueness of the index.  Every well-formed record the loop has been
\* through has its key in the index, holding the record, severity and date of
\* the first well-formed record with that key; a later one has its "Duplicate
\* exception" line; and a finding looked up under the key is listed as expired
\* by the first record's date.  This holds in every state of the run, so no
\* entry is overwritten, removed or changed while the findings are evaluated.
C6_FirstRecordIndexed ==
    \A i \in WellFormed(ei - 1) :
            LET key == RecordKey(exceptions[i])
                earlier == EarlierRecords(i, key)
                firstRecord ==
                    IF earlier = {} THEN exceptions[i]
                    ELSE exceptions[CHOOSE j \in earlier : \A k \in earlier : j <= k]
            IN  /\ key \in DOMAIN exception_index
                /\ exception_index[key].raw = firstRecord
                /\ exception_index[key].severity = Lower(Strip(firstRecord.severity))
                /\ exception_index[key].expires_on = parse_date(firstRecord.expires_on)
                /\ earlier # {} =>
                    \E n \in DOMAIN errors :
                        errors[n] = Line(F_duplicate, <<key[1], exceptions[i].advisory>>)
                /\ key \in seen =>
                    (ListedUnder(expired_exceptions, key)
                        <=> DayNumber(parse_date(firstRecord.expires_on)) < DayNumber(today))

\* C6 witness: two different well-formed records with one key, and a finding
\* looked up under it
C6_Witness ==
    /\ pc = "done"
    /\ \E i, j \in Indexed :
        /\ i < j
        /\ ~IsMalformed(exceptions[i]) /\ ~IsMalformed(exceptions[j])
        /\ RecordKey(exceptions[i]) = RecordKey(exceptions[j])
        /\ exceptions[i] # exceptions[j]
        /\ RecordKey(exceptions[i]) \in seen
        /\ \E n \in DOMAIN stderr : stderr[n].fmt = F_duplicate

\* C7: malformed exception records.  Each malformed record the loop has been
\* through has produced exactly one malformed-exception line, none is in the
\* index, and a finding looked up under a key that no well-formed record has
\* is in the missing listing.
C7_MalformedExcluded ==
    /\ Cardinality({n \in DOMAIN errors :
            errors[n].fmt \in {F_missing_fields, F_invalid_date, F_missing_value}})
        = Cardinality({i \in Indexed : IsMalformed(exceptions[i])})
    /\ \A key \in DOMAIN exception_index : ~IsMalformed(exception_index[key].raw)
    /\ LET wellFormedKeys == {RecordKey(exceptions[i]) : i \in WellFormed(Len(exceptions))}
       IN  \A key \in seen : key \notin wellFormedKeys => ListedUnder(missing_exceptions, key)

\* C7 witness: a finding whose key only a malformed record has, in the missing
\* listing of a run that went on to the end
C7_Witness ==
    /\ pc = "done"
    /\ \E i \in DOMAIN exceptions :
        /\ IsMalformed(exceptions[i])
        /\ {"package", "advisory"} \subseteq DOMAIN exceptions[i]
        /\ RecordKey(exceptions[i]) \in seen
        /\ RecordKey(exceptions[i]) \notin DOMAIN exception_index
        /\ ListedUnder(missing_exceptions, RecordKey(exceptions[i]))
        /\ i < Len(exceptions)

\* C8: determinism.  The second run of the tool on the same inputs and the
\* same day returns the exit code and writes the lines of the first.
C8_Deterministic ==
    (run = 2 /\ pc = "done") =>
        /\ exit_code = first.exit_code
        /\ stderr = first.stderr
        /\ stdout = first.stdout

\* C9: key symmetry.  A finding that is looked up is in the missing listing
\* exactly when no indexed record has its package up to surrounding whitespace
\* and its advisory identifier up to surrounding whitespace and letter case.
C9_KeySymmetry ==
    LET fs == vulns
    IN  \A i \in Evaluated :
        IsFirstOfKey(fs, i) =>
            ((\E n \in DOMAIN missing_exceptions :
                /\ missing_exceptions[n].name = fs[i].name
                /\ missing_exceptions[n].advisory_id = fs[i].advisory_id)
             <=>
             ~\E key \in DOMAIN exception_index :
                /\ Strip(exception_index[key].raw.package) = Strip(Str(fs[i].name))
                /\ Lower(Strip(exception_index[key].raw.advisory))
                    = Lower(Strip(Str(fs[i].advisory_id))))

\* C9 witness: one finding matched a record although its package differs in
\* whitespace and its advisory in case; another, whose package differs from
\* the record's in case only, is in the missing listing
C9_Witness ==
    /\ pc = "done"
    /\ \E i, j \in Evaluated, key \in DOMAIN exception_index :
        LET raw == exception_index[key].raw
            fs == vulns
        IN  /\ IsFirstOfKey(fs, i) /\ IsFirstOfKey(fs, j)
            /\ FindingKey(fs[i]) = key
            /\ Str(fs[i].name) # raw.package
            /\ Str(fs[i].advisory_id) # raw.advisory
            /\ ~ListedUnder(missing_exceptions, key)
            /\ Str(fs[j].name) # raw.package
            /\ Lower(Str(fs[j].name)) = Lower(raw.package)
            /\ Lower(Strip(Str(fs[j].advisory_id))) = key[2]
            /\ ListedUnder(missing_exceptions, FindingKey(fs[j]))

\* the list-item lines among the first n lines
ListItems(n) == {k \in 1..n : StartsWith(Strip(lines[k]), <<"-", " ">>)}

\* C10: parser tolerance.  parse_exceptions never raises, and returns one
\* record per list-item line.
C10_ParserTolerant ==
    /\ p_pc # "raised"
    /\ p_pc = "returned" => Len(p_exceptions) = Cardinality(ListItems(Len(lines)))

====
